---- MODULE Spec2Model ----
(***************************************************************************)
(* Model of cxsi.py (CxSAST scan usage insight): one run of the command    *)
(* cxsi(), from init() to the end of the process.                          *)
(*                                                                         *)
(* The run is a single sequential pipeline; pc is the position in cxsi():  *)
(*   "init" -> "load_json" -> "write_scans_ws" -> "rows" ->                *)
(*   "write_summary_ws" -> "exit_script" -> "exited"                       *)
(* and "returned" when the except clause of cxsi() swallowed an exception. *)
(*                                                                         *)
(* Library behaviour the model relies on (none of it is in cxsi.py):       *)
(*  - xlsxwriter keeps a workbook in memory; the .xlsx file is written by  *)
(*    Workbook.close() and by nothing else;                                *)
(*  - Worksheet.write(row, col, v) stores nothing when row or col is       *)
(*    negative;                                                            *)
(*  - sys.exit raises SystemExit, which `except Exception` does not catch; *)
(*  - a command function that returns normally ends the process with       *)
(*    status 0.                                                            *)
(***************************************************************************)
EXTENDS Integers, Sequences, FiniteSets, TLC

VARIABLES
    pc,          \* position in cxsi()
    force,       \* _args.force
    target,      \* what is stored at _args.excel_file on disk
    scans_wb,    \* the global _scans_wb: "unbound", "open" or "closed"
    closes,      \* number of calls of Workbook.close()
    worksheets,  \* keys of the global _worksheets
    scan_data,   \* the value load_json returned
    table,       \* the arguments of ws.add_table on the Scans sheet
    cells,       \* cells stored on the Scans sheet: <<row, col>> -> value
    writes,      \* every ws.write call issued on the Scans sheet, in order
    summary,     \* every ws.write call issued on the Summary sheet, in order
    i,           \* the row loop's counter in write_scans_ws
    log,         \* messages logged at warning level or above, in order
    raised,      \* the exception the except clause of cxsi() caught
    exit_code    \* the status the process ends with (0 unless sys.exit sets it)

vars == << pc, force, target, scans_wb, closes, worksheets, scan_data, table,
           cells, writes, summary, i, log, raised, exit_code >>

----------------------------------------------------------------------------
(* Bounds and program constants *)

MaxScans == 2

SCANS_TABLE_NAME == "AllScans"

TABLE_TOP_ROWS == 2

DEFAULT_HIDE == 0

----------------------------------------------------------------------------
(* Values *)

\* Cell values as Worksheet.write receives them.
Num(n) == [t |-> "num", n |-> n, s |-> ""]
Str(s) == [t |-> "str", n |-> 0, s |-> s]
Date(d) == [t |-> "date", n |-> d, s |-> ""]
None == [t |-> "none", n |-> 0, s |-> ""]

\* Exceptions.
NoExc == [type |-> "", arg |-> ""]
Exc(type, arg) == [type |-> type, arg |-> arg]

----------------------------------------------------------------------------
(* Language Column Registry *)

\* init_lang_columns: the OrderedDict, as the ordered list of its items.
LanguageItems ==
    << [lang |-> "Apex", col |-> 33, hidden |-> DEFAULT_HIDE],
       [lang |-> "ASP", col |-> 34, hidden |-> DEFAULT_HIDE],
       [lang |-> "Cobol", col |-> 35, hidden |-> DEFAULT_HIDE],
       [lang |-> "CPP", col |-> 36, hidden |-> DEFAULT_HIDE],
       [lang |-> "CSharp", col |-> 37, hidden |-> DEFAULT_HIDE],
       [lang |-> "Groovy", col |-> 38, hidden |-> DEFAULT_HIDE],
       [lang |-> "Go", col |-> 39, hidden |-> DEFAULT_HIDE],
       [lang |-> "Java", col |-> 40, hidden |-> DEFAULT_HIDE],
       [lang |-> "JavaScript", col |-> 41, hidden |-> DEFAULT_HIDE],
       [lang |-> "Kotlin", col |-> 42, hidden |-> DEFAULT_HIDE],
       [lang |-> "Objc", col |-> 43, hidden |-> DEFAULT_HIDE],
       [lang |-> "PHP", col |-> 44, hidden |-> DEFAULT_HIDE],
       [lang |-> "Perl", col |-> 45, hidden |-> DEFAULT_HIDE],
       [lang |-> "Python", col |-> 46, hidden |-> DEFAULT_HIDE],
       [lang |-> "Ruby", col |-> 47, hidden |-> DEFAULT_HIDE],
       [lang |-> "Scala", col |-> 48, hidden |-> DEFAULT_HIDE],
       [lang |-> "Typescript", col |-> 49, hidden |-> DEFAULT_HIDE],
       [lang |-> "VbNet", col |-> 50, hidden |-> DEFAULT_HIDE],
       [lang |-> "VB6", col |-> 51, hidden |-> DEFAULT_HIDE],
       [lang |-> "Common", col |-> -1, hidden |-> DEFAULT_HIDE],
       [lang |-> "PLSQL", col |-> -1, hidden |-> DEFAULT_HIDE],
       [lang |-> "VbScript", col |-> -1, hidden |-> DEFAULT_HIDE],
       [lang |-> "Unknown", col |-> -1, hidden |-> DEFAULT_HIDE] >>

\* init_lang_columns(): language name -> {'col', 'hidden'}.
init_lang_columns ==
    [name \in {LanguageItems[k].lang : k \in 1..Len(LanguageItems)} |->
        LET k == CHOOSE j \in 1..Len(LanguageItems) : LanguageItems[j].lang = name
        IN  [col |-> LanguageItems[k].col, hidden |-> LanguageItems[k].hidden]]

----------------------------------------------------------------------------
(* Table Schema Builder *)

\* The 'columns' literal of init_scans_ws_options (formula "" when the column
\* has none; widths are left out).
FixedColumns ==
    << [header |-> "ScanId", format |-> "integer", formula |-> ""],
       [header |-> "ProjectName", format |-> "general", formula |-> ""],
       [header |-> "ProjectId", format |-> "integer", formula |-> ""],
       [header |-> "TeamId", format |-> "general", formula |-> ""],
       [header |-> "Team", format |-> "general", formula |-> ""],
       [header |-> "EngineId", format |-> "integer", formula |-> ""],
       [header |-> "Origin", format |-> "general", formula |-> ""],
       [header |-> "Preset", format |-> "general", formula |-> ""],
       [header |-> "Incr", format |-> "integer", formula |-> ""],
       [header |-> "LOC", format |-> "integer", formula |-> ""],
       [header |-> "FailedLOC", format |-> "integer", formula |-> ""],
       [header |-> "FileCount", format |-> "integer", formula |-> ""],
       [header |-> "ScanRequestedOn", format |-> "datetime", formula |-> ""],
       [header |-> "QueuedOn", format |-> "datetime", formula |-> ""],
       [header |-> "EngineStartedOn", format |-> "datetime", formula |-> ""],
       [header |-> "EngineFinishedOn", format |-> "datetime", formula |-> ""],
       [header |-> "ScanCompletedOn", format |-> "datetime", formula |-> ""],
       [header |-> "ScanDuration", format |-> "duration",
        formula |-> "=IF([@ScanCompletedOn]>0,[@ScanCompletedOn]-[@ScanRequestedOn],0)"],
       [header |-> "SourceTime", format |-> "duration",
        formula |-> "=[@QueuedOn]-[@ScanRequestedOn]"],
       [header |-> "QueuedTime", format |-> "duration",
        formula |-> "=IF([@EngineStartedOn]>0,[@EngineStartedOn]-[@QueuedOn],0)"],
       [header |-> "EngineTime", format |-> "duration",
        formula |-> "=IF([@EngineFinishedOn]>0,[@EngineFinishedOn]-[@QueuedOn],0)"],
       [header |-> "ScanHours", format |-> "decimal 2",
        formula |-> "=[@ScanDuration]*24"],
       [header |-> "Weekday", format |-> "integer",
        formula |-> "=WEEKDAY([@ScanRequestedOn])"],
       [header |-> "FullSpeed", format |-> "integer",
        formula |-> "=IF(AND([@ScanDuration]>0,[@Incr]=0),[@LOC]/([@ScanDuration]*24),0)"],
       [header |-> "IncrSpeed", format |-> "integer",
        formula |-> "=IF(AND([@ScanDuration]>0,[@Incr]=1),[@LOC]/([@ScanDuration]*24),0)"],
       [header |-> "Results", format |-> "integer",
        formula |-> "=SUM([@High],[@Med],[@Low],[@Info])"],
       [header |-> "High", format |-> "integer", formula |-> ""],
       [header |-> "Med", format |-> "integer", formula |-> ""],
       [header |-> "Low", format |-> "integer", formula |-> ""],
       [header |-> "Info", format |-> "integer", formula |-> ""],
       [header |-> "Version", format |-> "general", formula |-> ""],
       [header |-> "Locked", format |-> "integer", formula |-> ""],
       [header |-> "Public", format |-> "integer", formula |-> ""] >>

\* Mutant: the sentinel passes the filter (col >= -1 for col > -1).
TrackedItems_KeepsSentinel(items) == items

\* The registry items with a column index above the sentinel, in order.
RECURSIVE TrackedItems(_)
TrackedItems(items) ==
    IF items = << >> THEN << >>
    ELSE IF Head(items).col > -1
         THEN << Head(items) >> \o TrackedItems(Tail(items))
         ELSE TrackedItems(Tail(items))

\* init_scans_ws_options(lang_columns): the options of the scans data table.
\* lang_items is the registry as the ordered list the for loop walks.
init_scans_ws_options(lang_items) ==
    [name |-> SCANS_TABLE_NAME,
     columns |-> FixedColumns \o
        [k \in 1..Len(TrackedItems(lang_items)) |->
            [header |-> TrackedItems(lang_items)[k].lang, format |-> "integer",
             formula |-> ""]]]

----------------------------------------------------------------------------
(* Input: the scan data file *)

\* JSON values of a scan object's fields.  A timestamp field holds null, a
\* string dateutil parses (to the instant n, counted in tenths of a day) or a
\* string it rejects.
JNum(n) == [j |-> "number", n |-> n, s |-> ""]
JStr(s) == [j |-> "string", n |-> 0, s |-> s]
JBool(b) == [j |-> "bool", n |-> IF b THEN 1 ELSE 0, s |-> ""]
JNull == [j |-> "null", n |-> 0, s |-> ""]
JTime(d) == [j |-> "datestr", n |-> d, s |-> ""]
JBad == [j |-> "badstr", n |-> 0, s |-> "n/a"]

\* One scan object of the OData result.  ScannedLanguages is the list of the
\* LanguageName values of its entries.
ScanJson(id, incr, loc, completed, langs) ==
    [Id |-> JNum(id), ProjectName |-> JStr("proj"), OwningTeamId |-> JStr("team-1"),
     TeamName |-> JStr("CxServer"), ProductVersion |-> JStr("9.0"),
     EngineServerId |-> JNum(1), Origin |-> JStr("Web Portal"),
     PresetName |-> JStr("Default"), ScanRequestedOn |-> JTime(100),
     QueuedOn |-> JTime(100), EngineStartedOn |-> JTime(100),
     EngineFinishedOn |-> JTime(101), ScanCompletedOn |-> completed,
     FileCount |-> JNum(3), LOC |-> JNum(loc), FailedLOC |-> JNum(0),
     High |-> JNum(1), Medium |-> JNum(2), Low |-> JNum(3), Info |-> JNum(4),
     IsIncremental |-> JBool(incr), IsLocked |-> JBool(FALSE),
     IsPublic |-> JBool(TRUE), ScannedLanguages |-> langs]

\* The language-usage lists the inputs are drawn from: tracked languages inside
\* and outside columns A..AX, an untracked one, one absent from the registry.
LangLists ==
    { << >>, << "Java" >>, << "VB6" >>, << "Common" >>, << "Fortran" >>,
      << "Java", "VB6" >>, << "Common", "Java" >>, << "Java", "Java" >> }

\* A scan object without one of its keys.
WithoutKey(scan, key) == [k \in DOMAIN scan \ { key } |-> scan[k]]

\* The scan objects the inputs are drawn from: a completed incremental scan
\* with every usage list, a completed full scan, a scan still in flight (no
\* completion timestamp), a scan with an unparsable timestamp, a scan completed
\* at the instant it was requested and a scan object that lacks a field.
ScanRecords ==
    { ScanJson(1, TRUE, 1000, JTime(101), l) : l \in LangLists } \cup
    { ScanJson(2, FALSE, 500, JTime(105), l) : l \in { << >>, << "Java" >> } } \cup
    { ScanJson(3, FALSE, 500, JNull, << >>),
      ScanJson(4, FALSE, 500, JBad, << >>),
      ScanJson(6, FALSE, 500, JTime(100), << >>),
      WithoutKey(ScanJson(5, FALSE, 500, JTime(105), << >>), "LOC") }

\* Sequences of at most n scan objects.
RECURSIVE ScanLists(_)
ScanLists(n) ==
    IF n = 0 THEN { << >> }
    ELSE ScanLists(n - 1) \cup
         { Append(l, r) : l \in { x \in ScanLists(n - 1) : Len(x) = n - 1 },
                          r \in ScanRecords }

\* What the scan data file may hold: nothing (missing or empty), text that is
\* not JSON, a JSON object without 'value', or an OData result.
InputFiles ==
    { [kind |-> "empty", has_value |-> FALSE, value |-> << >>],
      [kind |-> "not_json", has_value |-> FALSE, value |-> << >>],
      [kind |-> "json", has_value |-> FALSE, value |-> << >>] } \cup
    { [kind |-> "json", has_value |-> TRUE, value |-> l] : l \in ScanLists(MaxScans) }

----------------------------------------------------------------------------
(* Record Normalizer *)

\* convert_datetime(date_str): dateutil.parser.parse.
convert_datetime(date_str) ==
    CASE date_str.j = "datestr" -> [exc |-> NoExc, value |-> Date(date_str.n)]
      [] date_str.j = "badstr" -> [exc |-> Exc("ParserError", date_str.s), value |-> None]
      [] OTHER -> [exc |-> Exc("TypeError", "Parser must be a string"), value |-> None]

\* The entries of the scan_row literal of convert_json_scan, in order: the key
\* of the row, the key read from the scan, how the value is made, the column.
ScanRowLiteral ==
    << [name |-> "ScanId", key |-> "Id", conv |-> "raw", col |-> 0],
       [name |-> "ProjectName", key |-> "ProjectName", conv |-> "raw", col |-> 1],
       [name |-> "ProjectId", key |-> "", conv |-> "none", col |-> 2],
       [name |-> "TeamId", key |-> "OwningTeamId", conv |-> "raw", col |-> 3],
       [name |-> "Team", key |-> "TeamName", conv |-> "raw", col |-> 4],
       [name |-> "EngineId", key |-> "EngineServerId", conv |-> "raw", col |-> 5],
       [name |-> "Origin", key |-> "Origin", conv |-> "raw", col |-> 6],
       [name |-> "Preset", key |-> "PresetName", conv |-> "raw", col |-> 7],
       [name |-> "Incr", key |-> "IsIncremental", conv |-> "flag", col |-> 8],
       [name |-> "LOC", key |-> "LOC", conv |-> "raw", col |-> 9],
       [name |-> "FailedLOC", key |-> "FailedLOC", conv |-> "raw", col |-> 10],
       [name |-> "FileCount", key |-> "FileCount", conv |-> "raw", col |-> 11],
       [name |-> "ScanRequestedOn", key |-> "ScanRequestedOn", conv |-> "datetime", col |-> 12],
       [name |-> "QueuedOn", key |-> "QueuedOn", conv |-> "datetime", col |-> 13],
       [name |-> "EngineStartedOn", key |-> "EngineStartedOn", conv |-> "datetime", col |-> 14],
       [name |-> "EngineFinishedOn", key |-> "EngineFinishedOn", conv |-> "datetime", col |-> 15],
       [name |-> "ScanCompletedOn", key |-> "ScanCompletedOn", conv |-> "datetime", col |-> 16],
       [name |-> "High", key |-> "High", conv |-> "raw", col |-> 26],
       [name |-> "Med", key |-> "Medium", conv |-> "raw", col |-> 27],
       [name |-> "Low", key |-> "Low", conv |-> "raw", col |-> 28],
       [name |-> "Info", key |-> "Info", conv |-> "raw", col |-> 29],
       [name |-> "Version", key |-> "ProductVersion", conv |-> "raw", col |-> 30],
       [name |-> "Locked", key |-> "IsLocked", conv |-> "flag", col |-> 31],
       [name |-> "Public", key |-> "IsPublic", conv |-> "flag", col |-> 32] >>

\* A JSON value as the Python value json.load makes of it, written to a cell.
RawValue(v) ==
    CASE v.j = "number" -> Num(v.n)
      [] v.j = "bool" -> Num(v.n)
      [] v.j = "null" -> None
      [] OTHER -> Str(v.s)

\* Python truthiness of a JSON value.
Truthy(v) ==
    CASE v.j = "number" -> v.n # 0
      [] v.j = "bool" -> v.n = 1
      [] v.j = "null" -> FALSE
      [] OTHER -> v.s # ""

\* Mutant: the indices of the literal do not skip the nine formula columns
\* (High follows ScanCompletedOn at 17).
LiteralCell_NoFormulaGap(scan, e) ==
    LET col == IF e.col >= 26 THEN e.col - 9 ELSE e.col
    IN  IF e.conv = "none"
        THEN [exc |-> NoExc, cell |-> [name |-> e.name, value |-> None, col |-> col]]
        ELSE IF e.key \notin DOMAIN scan
        THEN [exc |-> Exc("KeyError", e.key),
              cell |-> [name |-> e.name, value |-> None, col |-> col]]
        ELSE IF e.conv = "datetime"
        THEN [exc |-> convert_datetime(scan[e.key]).exc,
              cell |-> [name |-> e.name, value |-> convert_datetime(scan[e.key]).value,
                        col |-> col]]
        ELSE IF e.conv = "flag"
        THEN [exc |-> NoExc,
              cell |-> [name |-> e.name, value |-> Num(IF Truthy(scan[e.key]) THEN 1 ELSE 0),
                        col |-> col]]
        ELSE [exc |-> NoExc,
              cell |-> [name |-> e.name, value |-> RawValue(scan[e.key]), col |-> col]]

\* One entry of the scan_row literal: the cell, or the exception that
\* evaluating it raises.
LiteralCell(scan, e) ==
    IF e.conv = "none"
    THEN [exc |-> NoExc, cell |-> [name |-> e.name, value |-> None, col |-> e.col]]
    ELSE IF e.key \notin DOMAIN scan
    THEN [exc |-> Exc("KeyError", e.key), cell |-> [name |-> e.name, value |-> None, col |-> e.col]]
    ELSE IF e.conv = "datetime"
    THEN [exc |-> convert_datetime(scan[e.key]).exc,
          cell |-> [name |-> e.name, value |-> convert_datetime(scan[e.key]).value,
                    col |-> e.col]]
    ELSE IF e.conv = "flag"
    THEN [exc |-> NoExc,
          cell |-> [name |-> e.name, value |-> Num(IF Truthy(scan[e.key]) THEN 1 ELSE 0),
                    col |-> e.col]]
    ELSE [exc |-> NoExc,
          cell |-> [name |-> e.name, value |-> RawValue(scan[e.key]), col |-> e.col]]

\* The scan_row literal, evaluated entry by entry; the first exception ends it.
RECURSIVE LiteralCells(_, _)
LiteralCells(scan, entries) ==
    IF entries = << >> THEN [exc |-> NoExc, row |-> << >>]
    ELSE LET first == LiteralCell(scan, Head(entries))
         IN  IF first.exc # NoExc THEN [exc |-> first.exc, row |-> << >>]
             ELSE LET rest == LiteralCells(scan, Tail(entries))
                  IN  [exc |-> rest.exc, row |-> << first.cell >> \o rest.row]

\* scan_row[name] = cell on an OrderedDict kept as the list of its items: an
\* existing key keeps its place, a new key goes last.
DictSet(row, cell) ==
    IF \E k \in 1..Len(row) : row[k].name = cell.name
    THEN [k \in 1..Len(row) |-> IF row[k].name = cell.name THEN cell ELSE row[k]]
    ELSE Append(row, cell)

\* Mutant: a language absent from the registry is skipped (lang_columns.get)
\* instead of raising.
RECURSIVE LanguageCells_SkipsUnknown(_, _, _)
LanguageCells_SkipsUnknown(row, langs, lang_columns) ==
    IF langs = << >> THEN [exc |-> NoExc, row |-> row]
    ELSE LET lang_name == Head(langs)
         IN  IF lang_name \notin DOMAIN lang_columns
             THEN LanguageCells_SkipsUnknown(row, Tail(langs), lang_columns)
             ELSE LanguageCells_SkipsUnknown(
                      DictSet(row, [name |-> lang_name, value |-> Num(1),
                                    col |-> lang_columns[lang_name].col]),
                      Tail(langs), lang_columns)

\* Mutant: only the last language of the usage list gets its cell (the
\* assignment placed after the loop instead of inside it).
RECURSIVE LanguageCells_LastOnly(_, _, _)
LanguageCells_LastOnly(row, langs, lang_columns) ==
    IF langs = << >> THEN [exc |-> NoExc, row |-> row]
    ELSE LET lang_name == Head(langs)
         IN  IF lang_name \notin DOMAIN lang_columns
             THEN [exc |-> Exc("KeyError", lang_name), row |-> row]
             ELSE IF Tail(langs) # << >>
             THEN LanguageCells_LastOnly(row, Tail(langs), lang_columns)
             ELSE [exc |-> NoExc,
                   row |-> DictSet(row, [name |-> lang_name, value |-> Num(1),
                                         col |-> lang_columns[lang_name].col])]

\* The language loop of convert_json_scan over the usage list langs.
RECURSIVE LanguageCells(_, _, _)
LanguageCells(row, langs, lang_columns) ==
    IF langs = << >> THEN [exc |-> NoExc, row |-> row]
    ELSE LET lang_name == Head(langs)
         IN  IF lang_name \notin DOMAIN lang_columns
             THEN [exc |-> Exc("KeyError", lang_name), row |-> row]
             ELSE LanguageCells(
                      DictSet(row, [name |-> lang_name, value |-> Num(1),
                                    col |-> lang_columns[lang_name].col]),
                      Tail(langs), lang_columns)

\* convert_json_scan(scan, lang_columns): the row as the ordered list of its
\* cells {name, value, col}, or the exception raised.
convert_json_scan(scan, lang_columns) ==
    LET fixed == LiteralCells(scan, ScanRowLiteral)
    IN  IF fixed.exc # NoExc THEN [exc |-> fixed.exc, row |-> << >>]
        ELSE IF "ScannedLanguages" \notin DOMAIN scan
        THEN [exc |-> Exc("KeyError", "ScannedLanguages"), row |-> << >>]
        ELSE LET done == LanguageCells(fixed.row, scan.ScannedLanguages, lang_columns)
             IN  IF done.exc # NoExc THEN [exc |-> done.exc, row |-> << >>] ELSE done

----------------------------------------------------------------------------
(* Worksheets *)

\* A column name of A1 notation, as the list of its letters' positions in the
\* alphabet, to the zero-based column index (xl_col_to_index... "AX" is 49).
RECURSIVE ColumnNumber(_)
ColumnNumber(letters) ==
    IF letters = << >> THEN 0
    ELSE 26 * ColumnNumber(SubSeq(letters, 1, Len(letters) - 1)) + letters[Len(letters)]

ColumnIndex(letters) == ColumnNumber(letters) - 1

Letters_A == << 1 >>

Letters_AX == << 1, 24 >>

\* The table before ws.add_table was called.
NoTable ==
    [added |-> FALSE, name |-> "", first_row |-> 0, first_col |-> 0,
     last_row |-> 0, last_col |-> 0, columns |-> << >>]

\* ws.add_table(table_range, options) with the table_range of write_scans_ws,
\* 'A{}:AX{}'.format(TABLE_TOP_ROWS, TABLE_TOP_ROWS + num_scans): the range in
\* zero-based rows and columns, the header row being its first row.
add_table(num_scans, options) ==
    [added |-> TRUE, name |-> options.name,
     first_row |-> TABLE_TOP_ROWS - 1, first_col |-> ColumnIndex(Letters_A),
     last_row |-> TABLE_TOP_ROWS + num_scans - 1, last_col |-> ColumnIndex(Letters_AX),
     columns |-> options.columns]

\* ws.write(row, col, value) on the cells cs of a sheet: a negative row or
\* column is rejected, None (a blank without a format) is not stored.
ws_write(cs, row, col, value) ==
    IF row < 0 \/ col < 0 \/ value.t = "none" THEN cs
    ELSE (<< row, col >> :> value) @@ cs

\* The inner loop of write_scans_ws: every cell of scan_row written to the
\* sheet row of the i-th scan.
RECURSIVE WriteRowCells(_, _, _)
WriteRowCells(cs, scan_row, row) ==
    IF scan_row = << >> THEN cs
    ELSE WriteRowCells(ws_write(cs, row, Head(scan_row).col, Head(scan_row).value),
                       Tail(scan_row), row)

\* Mutant: the rows start one row too high, on the column-title row.
ScanSheetRow_OnTitleRow(k) == k + TABLE_TOP_ROWS - 1

\* Mutant: every scan is written to the first data row (the loop index is
\* left out of the row).
ScanSheetRow_FirstDataRow(k) == TABLE_TOP_ROWS

\* The sheet row the i-th scan (from 0) is written to.
ScanSheetRow(k) == k + TABLE_TOP_ROWS

\* The ws.write calls of that loop, in order.
RowWriteCalls(scan_row, row) ==
    [k \in 1..Len(scan_row) |->
        [row |-> row, col |-> scan_row[k].col, value |-> scan_row[k].value]]

----------------------------------------------------------------------------
(* Summary Aggregator *)

\* Formulas, as the expressions the viewer evaluates.
Ref(tbl, column) == [op |-> "ref", table |-> tbl, column |-> column]
Lit(n) == [op |-> "lit", n |-> n]
Crit(s) == [op |-> "criterion", s |-> s]
Fn(name, args) == [op |-> name, args |-> args]
Formula(f) == [t |-> "formula", f |-> f]

\* A literal cell range of a sheet, such as Scans!M3:M1000.
CellRange(sheet, a1) == [op |-> "range", sheet |-> sheet, a1 |-> a1]

\* Mutant: the request dates are addressed by a literal range of the sheet.
RequestedSpan_CellRange(T) ==
    Fn("-", << Fn("MAX", << CellRange("Scans", "M3:M1000") >>),
               Fn("MIN", << CellRange("Scans", "M3:M1000") >>) >>)

\* MAX(T[ScanRequestedOn])-MIN(T[ScanRequestedOn])
RequestedSpan(T) ==
    Fn("-", << Fn("MAX", << Ref(T, "ScanRequestedOn") >>),
               Fn("MIN", << Ref(T, "ScanRequestedOn") >>) >>)

\* COUNTIF(T[Weekday],"=d")/((MAX(..)-MIN(..))/7)
WeekdayAverage(T, d) ==
    Fn("/", << Fn("COUNTIF", << Ref(T, "Weekday"), Crit(d) >>),
               Fn("/", << RequestedSpan(T), Lit(7) >>) >>)

\* write_summary_info(ws, row, col, title, data, cell_format)
write_summary_info(row, col, title, data, cell_format) ==
    << [row |-> row, col |-> col, value |-> Str(title), format |-> ""],
       [row |-> row, col |-> col + 1, value |-> data, format |-> cell_format] >>

\* write_headers(ws, row, col, data, cell_format)
write_headers(row, col, data, cell_format) ==
    [k \in 1..Len(data) |->
        [row |-> row, col |-> col + k - 1, value |-> Str(data[k]), format |-> cell_format]]

\* write_summary_ws: the ws.write calls on the Summary sheet, in order.
\* T is TABLE; row and col are the locals of the same names.
SummaryWrites(T, row, col) ==
    << [row |-> 0, col |-> 0, value |-> Str("Scan Summary Info"), format |-> "bold"] >>
    \o write_headers(row, col, << "Scans", "Stats" >>, "summary header")
    \o write_summary_info(row + 1, col, "Start Date",
           Formula(Fn("MIN", << Ref(T, "ScanRequestedOn") >>)), "datetime")
    \o write_summary_info(row + 2, col, "End Date",
           Formula(Fn("MAX", << Ref(T, "ScanRequestedOn") >>)), "datetime")
    \o write_summary_info(row + 3, col, "Days", Formula(RequestedSpan(T)), "")
    \o write_summary_info(row + 4, col, "Weeks",
           Formula(Fn("ROUNDUP", << Fn("/", << RequestedSpan(T), Lit(7) >>), Lit(0) >>)), "")
    \o write_summary_info(row + 5, col, "Scans",
           Formula(Fn("COUNT", << Ref(T, "ScanId") >>)), "")
    \o write_summary_info(row + 6, col, "Completed Scans",
           Formula(Fn("COUNT", << Ref(T, "ScanCompletedOn") >>)), "")
    \o write_summary_info(row + 7, col, "Scans Inflight",
           Formula(Fn("-", << Fn("COUNT", << Ref(T, "ScanId") >>),
                              Fn("COUNT", << Ref(T, "ScanCompletedOn") >>) >>)), "")
    \o write_summary_info(row + 8, col, "Full Scans",
           Formula(Fn("COUNTIF", << Ref(T, "Incr"), Crit("=0") >>)), "")
    \o write_summary_info(row + 9, col, "Incr Scans",
           Formula(Fn("COUNTIF", << Ref(T, "Incr"), Crit("=1") >>)), "")
    \o << [row |-> row + 9, col |-> col + 2,
           value |-> Formula(Fn("/", << Fn("COUNTIF", << Ref(T, "Incr"), Crit("=1") >>),
                                        Fn("COUNT", << Ref(T, "ScanId") >>) >>)),
           format |-> "percent"] >>
    \o write_summary_info(row + 10, col, "Avg Full Scan Rate",
           Formula(Fn("AVERAGEIF", << Ref(T, "FullSpeed"), Crit("<>0") >>)), "")
    \o << [row |-> row + 10, col |-> col + 2, value |-> Str("LOC / Hr"), format |-> ""] >>
    \o write_summary_info(row + 11, col, "Avg Incr Scan Rate",
           Formula(Fn("AVERAGEIFS", << Ref(T, "IncrSpeed"), Ref(T, "Incr"), Crit("=1 ") >>)), "")
    \o << [row |-> row + 11, col |-> col + 2, value |-> Str("LOC / Hr"), format |-> ""] >>
    \o write_summary_info(row + 12, col, "Max Scan Rate",
           Formula(Fn("MAX", << Ref(T, "FullSpeed") >>)), "")
    \o << [row |-> row + 12, col |-> col + 2, value |-> Str("LOC / Hr"), format |-> ""] >>
    \o write_summary_info(row + 13, col, "Avg Scans Per Day",
           Formula(Fn("/", << Fn("COUNT", << Ref(T, "ScanId") >>), RequestedSpan(T) >>)), "")
    \o write_summary_info(row + 14, col, "   Sun", Formula(WeekdayAverage(T, "=1")), "")
    \o write_summary_info(row + 15, col, "   Mon", Formula(WeekdayAverage(T, "=2")), "")
    \o write_summary_info(row + 16, col, "   Tue", Formula(WeekdayAverage(T, "=3")), "")
    \o write_summary_info(row + 17, col, "   Wed", Formula(WeekdayAverage(T, "=4")), "")
    \o write_summary_info(row + 18, col, "   Thu", Formula(WeekdayAverage(T, "=5")), "")
    \o write_summary_info(row + 19, col, "   Fri", Formula(WeekdayAverage(T, "=6")), "")
    \o write_summary_info(row + 20, col, "   Sat", Formula(WeekdayAverage(T, "=7")), "")

----------------------------------------------------------------------------
(* The viewer: how the workbook's formulas evaluate *)

\* The zero-based sheet column a structured reference T[column] names in the
\* table tbl: the table column whose header is `column`.  Column definitions
\* beyond the table's range are not columns of the table.  -1: no such column.
TableColumn(tbl, column) ==
    LET width == tbl.last_col - tbl.first_col + 1
        hits == { k \in 1..Len(tbl.columns) : k <= width /\ tbl.columns[k].header = column }
    IN  IF hits = { } THEN -1 ELSE tbl.first_col + (CHOOSE k \in hits : TRUE) - 1

\* The data rows of the table: all rows of its range below the header row.
TableDataRows(tbl) == (tbl.first_row + 1)..tbl.last_row

\* The sheet rows that hold at least one stored cell.
UsedRows(cs) == { rc[1] : rc \in DOMAIN cs }

\* COUNT(T[column]): the number of data rows whose cell in that column holds
\* a number (dates are numbers).
COUNT(tbl, cs, column) ==
    Cardinality({ r \in TableDataRows(tbl) :
        /\ << r, TableColumn(tbl, column) >> \in DOMAIN cs
        /\ cs[<< r, TableColumn(tbl, column) >>].t \in { "num", "date" } })

\* The number a cell holds, as a formula reads it: 0 for an empty cell.
CellNumber(cs, row, col) ==
    IF << row, col >> \in DOMAIN cs /\ cs[<< row, col >>].t \in { "num", "date" }
    THEN cs[<< row, col >>].n
    ELSE 0

\* The ScanDuration column's formula on a sheet row of the table:
\* =IF([@ScanCompletedOn]>0,[@ScanCompletedOn]-[@ScanRequestedOn],0)
ScanDuration(tbl, cs, row) ==
    IF CellNumber(cs, row, TableColumn(tbl, "ScanCompletedOn")) > 0
    THEN CellNumber(cs, row, TableColumn(tbl, "ScanCompletedOn"))
         - CellNumber(cs, row, TableColumn(tbl, "ScanRequestedOn"))
    ELSE 0

\* The formula write_summary_info put next to the label `title`.
SummaryStat(sm, title) ==
    LET hits == { k \in 2..Len(sm) :
                    /\ sm[k].value.t = "formula"
                    /\ sm[k - 1].value.t = "str"
                    /\ sm[k - 1].value.s = title
                    /\ sm[k - 1].row = sm[k].row
                    /\ sm[k - 1].col + 1 = sm[k].col }
    IN  sm[CHOOSE k \in hits : TRUE].value.f

\* The value of a COUNT(T[column]) formula f; -1 stands for the error shown
\* when T is no table of the workbook or has no such column.
EvalCount(f, tbl, cs) ==
    IF /\ f.op = "COUNT"
       /\ tbl.added
       /\ tbl.name = f.args[1].table
       /\ TableColumn(tbl, f.args[1].column) >= 0
    THEN COUNT(tbl, cs, f.args[1].column)
    ELSE -1

\* A quotient the viewer computes, kept exact; den = 0 stands for #DIV/0!.
Ratio(num, den) == [num |-> num, den |-> den]

\* Two quotients (neither an error) are the same number.
SameRatio(a, b) == a.den # 0 /\ b.den # 0 /\ a.num * b.den = b.num * a.den

\* The serial number, in days, of a date or duration cell: ws.write stores a
\* datetime as days, and the instants of the model count tenths of a day.
Days(n) == Ratio(n, 10)

\* Mutant: the full-scan rate is computed for the incremental scans.
FullSpeed_WrongFlag(tbl, cs, row) ==
    IF /\ ScanDuration(tbl, cs, row) > 0
       /\ CellNumber(cs, row, TableColumn(tbl, "Incr")) = 1
    THEN Ratio(CellNumber(cs, row, TableColumn(tbl, "LOC"))
                   * Days(ScanDuration(tbl, cs, row)).den,
               Days(ScanDuration(tbl, cs, row)).num * 24)
    ELSE Ratio(0, 1)

\* The FullSpeed column's formula on a sheet row of the table:
\* =IF(AND([@ScanDuration]>0,[@Incr]=0),[@LOC]/([@ScanDuration]*24),0)
FullSpeed(tbl, cs, row) ==
    IF /\ ScanDuration(tbl, cs, row) > 0
       /\ CellNumber(cs, row, TableColumn(tbl, "Incr")) = 0
    THEN Ratio(CellNumber(cs, row, TableColumn(tbl, "LOC"))
                   * Days(ScanDuration(tbl, cs, row)).den,
               Days(ScanDuration(tbl, cs, row)).num * 24)
    ELSE Ratio(0, 1)

\* The IncrSpeed column's formula on a sheet row of the table:
\* =IF(AND([@ScanDuration]>0,[@Incr]=1),[@LOC]/([@ScanDuration]*24),0)
IncrSpeed(tbl, cs, row) ==
    IF /\ ScanDuration(tbl, cs, row) > 0
       /\ CellNumber(cs, row, TableColumn(tbl, "Incr")) = 1
    THEN Ratio(CellNumber(cs, row, TableColumn(tbl, "LOC"))
                   * Days(ScanDuration(tbl, cs, row)).den,
               Days(ScanDuration(tbl, cs, row)).num * 24)
    ELSE Ratio(0, 1)

\* COUNTIF(T[column],"=n"): the number of data rows whose cell in that column
\* holds the number n.  An empty cell does not match.
COUNTIF(tbl, cs, column, n) ==
    Cardinality({ r \in TableDataRows(tbl) :
        /\ << r, TableColumn(tbl, column) >> \in DOMAIN cs
        /\ cs[<< r, TableColumn(tbl, column) >>].t = "num"
        /\ cs[<< r, TableColumn(tbl, column) >>].n = n })

\* The number a criterion "=n" compares with; -1 for any other criterion.
CriterionNumber(s) ==
    CASE s = "=0" -> 0
      [] s = "=1" -> 1
      [] OTHER -> -1

\* The value of a COUNTIF(T[column],"=n") formula f; -1 stands for the error
\* shown when T is no table of the workbook or has no such column.
EvalCountIf(f, tbl, cs) ==
    IF /\ f.op = "COUNTIF"
       /\ tbl.added
       /\ tbl.name = f.args[1].table
       /\ TableColumn(tbl, f.args[1].column) >= 0
       /\ CriterionNumber(f.args[2].s) >= 0
    THEN COUNTIF(tbl, cs, f.args[1].column, CriterionNumber(f.args[2].s))
    ELSE -1

\* The value of a COUNTIF(..)/COUNT(..) formula f.
EvalShare(f, tbl, cs) ==
    IF f.op = "/" /\ EvalCountIf(f.args[1], tbl, cs) >= 0 /\ EvalCount(f.args[2], tbl, cs) >= 0
    THEN Ratio(EvalCountIf(f.args[1], tbl, cs), EvalCount(f.args[2], tbl, cs))
    ELSE Ratio(0, 0)

----------------------------------------------------------------------------
(* The run *)

Message(level, msg) == [level |-> level, msg |-> msg]

\* The output file: absent, the file that was there before the run, or the
\* workbook as Workbook.close() stores it.
Absent == [kind |-> "absent"]
Old == [kind |-> "old"]
Stored(sheets, tbl, cs, sm) ==
    [kind |-> "xlsx", worksheets |-> sheets, table |-> tbl, cells |-> cs, summary |-> sm]

\* Mutant: the force flag is not consulted; an existing file is overwritten.
create_scans_wb_IgnoresForce(exists, frc, remove_ok) ==
    IF exists /\ remove_ok
    THEN [exits |-> FALSE, code |-> 0, removed |-> TRUE, workbook |-> TRUE,
          log |-> << Message("warning", "Excel file exists, overwriting") >>]
    ELSE IF exists
    THEN [exits |-> TRUE, code |-> 4, removed |-> FALSE, workbook |-> FALSE,
          log |-> << Message("warning", "Excel file exists, overwriting"),
                     Message("critical", "Unable to overwrite excel file") >>]
    ELSE [exits |-> FALSE, code |-> 0, removed |-> FALSE, workbook |-> TRUE,
          log |-> << >>]

\* create_scans_wb(excel_file, force), given whether excel_file exists and
\* whether os.remove succeeds: whether it exits the script and with which
\* code, whether the file was removed, what it logged, and whether it
\* returned a Workbook.
create_scans_wb(exists, frc, remove_ok) ==
    IF exists /\ frc /\ remove_ok
    THEN [exits |-> FALSE, code |-> 0, removed |-> TRUE, workbook |-> TRUE,
          log |-> << Message("warning", "Excel file exists, overwriting") >>]
    ELSE IF exists /\ frc
    THEN [exits |-> TRUE, code |-> 4, removed |-> FALSE, workbook |-> FALSE,
          log |-> << Message("warning", "Excel file exists, overwriting"),
                     Message("critical", "Unable to overwrite excel file") >>]
    ELSE IF exists
    THEN [exits |-> TRUE, code |-> 1, removed |-> FALSE, workbook |-> FALSE,
          log |-> << Message("error", "Excel file exists") >>]
    ELSE [exits |-> FALSE, code |-> 0, removed |-> FALSE, workbook |-> TRUE,
          log |-> << >>]

\* exit_script(code): closes the workbook when the global _scans_wb is bound
\* (an unbound global raises the NameError the function swallows), then
\* sys.exit(code).  wb is _scans_wb, tgt the output file, stored what close()
\* writes to it.
exit_script(code, wb, tgt, stored) ==
    IF wb # "unbound"
    THEN [scans_wb |-> "closed", closed |-> 1, target |-> stored, exit_code |-> code]
    ELSE [scans_wb |-> wb, closed |-> 0, target |-> tgt, exit_code |-> code]

\* The except clause of cxsi(): the exception is logged and the command
\* returns; the process ends with the default status.
ExceptClause(err) ==
    [log |-> << Message("critical", "Unexpected exception:"),
                Message("error", err.arg) >>,
     raised |-> err]

\* The state exit_script leaves behind.
Exited(e, messages) ==
    /\ pc' = "exited"
    /\ scans_wb' = e.scans_wb
    /\ closes' = closes + e.closed
    /\ target' = e.target
    /\ exit_code' = e.exit_code
    /\ log' = log \o messages

\* The state the except clause leaves behind.
Returned(err) ==
    /\ pc' = "returned"
    /\ raised' = ExceptClause(err).raised
    /\ log' = log \o ExceptClause(err).log
    /\ UNCHANGED << scans_wb, closes, target, exit_code >>

Init ==
    /\ pc = "init"
    /\ force \in BOOLEAN
    /\ target \in { Absent, Old }
    /\ scans_wb = "unbound"
    /\ closes = 0
    /\ worksheets = { }
    /\ scan_data = << >>
    /\ table = NoTable
    /\ cells = << >>
    /\ writes = << >>
    /\ summary = << >>
    /\ i = 0
    /\ log = << >>
    /\ raised = NoExc
    /\ exit_code = 0

\* init(args): init_workbook -> create_scans_wb, then the worksheets.
cxsi_init ==
    /\ pc = "init"
    /\ \E remove_ok \in BOOLEAN :
        LET r == create_scans_wb(target.kind # "absent", force, remove_ok)
            tgt == IF r.removed THEN Absent ELSE target
        IN  IF r.exits
            THEN /\ Exited(exit_script(r.code, scans_wb, tgt,
                                       Stored(worksheets, table, cells, summary)), r.log)
                 /\ UNCHANGED worksheets
            ELSE /\ pc' = "load_json"
                 /\ target' = tgt
                 /\ scans_wb' = IF r.workbook THEN "open" ELSE scans_wb
                 /\ worksheets' = { "Summary", "Scans" }
                 /\ log' = log \o r.log
                 /\ UNCHANGED << closes, exit_code >>
    /\ UNCHANGED << force, scan_data, table, cells, writes, summary, i, raised >>

\* load_json(_args.scan_data_file)
load_json ==
    /\ pc = "load_json"
    /\ \E file \in InputFiles :
        CASE file.kind = "empty" ->
               /\ Exited(exit_script(2, scans_wb, target,
                                     Stored(worksheets, table, cells, summary)),
                         << Message("warning", "Scan json data file not found or is empty") >>)
               /\ UNCHANGED << scan_data, raised >>
          [] file.kind = "not_json" ->
               /\ Exited(exit_script(3, scans_wb, target,
                                     Stored(worksheets, table, cells, summary)),
                         << Message("critical", "Failed to load json"),
                            Message("error", "JSONDecodeError") >>)
               /\ UNCHANGED << scan_data, raised >>
          [] file.kind = "json" /\ ~file.has_value ->
               /\ Returned(Exc("KeyError", "value"))
               /\ UNCHANGED scan_data
          [] OTHER ->
               /\ pc' = "write_scans_ws"
               /\ scan_data' = file.value
               /\ UNCHANGED << scans_wb, closes, target, exit_code, log, raised >>
    /\ UNCHANGED << force, worksheets, table, cells, writes, summary, i >>

\* write_scans_ws(scan_data['value']) up to the row loop.
write_scans_ws ==
    /\ pc = "write_scans_ws"
    /\ table' = add_table(Len(scan_data), init_scans_ws_options(LanguageItems))
    /\ i' = 0
    /\ pc' = IF Len(scan_data) > 0 THEN "rows" ELSE "write_summary_ws"
    /\ UNCHANGED << force, target, scans_wb, closes, worksheets, scan_data, cells,
                    writes, summary, log, raised, exit_code >>

\* One turn of the row loop of write_scans_ws.
write_scans_ws_row ==
    /\ pc = "rows"
    /\ LET r == convert_json_scan(scan_data[i + 1], init_lang_columns)
       IN  IF r.exc # NoExc
           THEN /\ Returned(r.exc)
                /\ UNCHANGED << cells, writes, i >>
           ELSE /\ cells' = WriteRowCells(cells, r.row, ScanSheetRow(i))
                /\ writes' = writes \o RowWriteCalls(r.row, ScanSheetRow(i))
                /\ i' = i + 1
                /\ pc' = IF i + 1 < Len(scan_data) THEN "rows" ELSE "write_summary_ws"
                /\ UNCHANGED << scans_wb, closes, target, exit_code, log, raised >>
    /\ UNCHANGED << force, worksheets, scan_data, table, summary >>

\* write_summary_ws(scan_data['value'])
write_summary_ws ==
    /\ pc = "write_summary_ws"
    /\ summary' = SummaryWrites(SCANS_TABLE_NAME, 1, 1)
    /\ pc' = "exit_script"
    /\ UNCHANGED << force, target, scans_wb, closes, worksheets, scan_data, table,
                    cells, writes, i, log, raised, exit_code >>

\* The else clause of cxsi(): exit_script().
cxsi_else ==
    /\ pc = "exit_script"
    /\ Exited(exit_script(0, scans_wb, target,
                          Stored(worksheets, table, cells, summary)), << >>)
    /\ UNCHANGED << force, worksheets, scan_data, table, cells, writes, summary, i,
                    raised >>

Next ==
    \/ cxsi_init
    \/ load_json
    \/ write_scans_ws
    \/ write_scans_ws_row
    \/ write_summary_ws
    \/ cxsi_else

Spec == Init /\ [][Next]_vars

----------------------------------------------------------------------------
(* Claims *)

\* write_summary_ws has run (and with it write_scans_ws, to its end).
SummaryWritten == pc \in { "exit_script", "exited" } /\ summary # << >>

Terminated == pc \in { "exited", "returned" }

\* The run ended without producing the report.
Aborted == pc = "returned" \/ (pc = "exited" /\ summary = << >>)

\* The output file existed when the run started (create_scans_wb logged it).
TargetExisted ==
    \E k \in 1..Len(log) :
        log[k].msg \in { "Excel file exists", "Excel file exists, overwriting" }

\* C2: whenever the run has ended after the workbook was created,
\* Workbook.close has been called exactly once, on success and on error.
C2_ClosedOnEveryExit ==
    (Terminated /\ scans_wb # "unbound") => (closes = 1 /\ scans_wb = "closed")

\* C3: after an aborted run the output file holds no workbook written by
\* that run, and a file that existed before the run is still there.
C3_CommitOrDiscard ==
    (Terminated /\ Aborted) =>
        /\ target.kind # "xlsx"
        /\ TargetExisted => target.kind = "old"

\* C4: every failed run ends with a non-zero status and a message logged at
\* warning level or above; only a fully successful run ends with status 0.
C4_FailuresExitNonZero ==
    Terminated =>
        /\ Aborted => (exit_code # 0 /\ log # << >>)
        /\ exit_code = 0 => (~Aborted /\ summary # << >> /\ scans_wb = "closed")

\* C5: when the output file exists and force is not set, the first step of
\* the run ends it with status 1 and the OutputConflict message: no workbook
\* is created or closed, no worksheet is created, no input is loaded, nothing
\* is written and the file is left as it was; nothing happens after an exit.
C5_ConflictAbortsBeforeAnything ==
    [][/\ ~Terminated
       /\ (pc = "init" /\ target.kind = "old" /\ ~force) =>
            /\ pc' = "exited"
            /\ exit_code' = 1
            /\ target' = Old
            /\ scans_wb' = "unbound"
            /\ closes' = 0
            /\ worksheets' = { }
            /\ scan_data' = << >>
            /\ table' = NoTable
            /\ cells' = << >>
            /\ writes' = << >>
            /\ summary' = << >>
            /\ log' = << Message("error", "Excel file exists") >>]_vars

\* C5 witness: a run that met an existing file without force has exited.
C5_Witness ==
    /\ pc = "exited"
    /\ exit_code = 1
    /\ ~force
    /\ target.kind = "old"

\* The names of the registry.
RegistryNames == { LanguageItems[k].lang : k \in 1..Len(LanguageItems) }

\* The scan's usage list names a language that the registry does not hold.
ReferencesUnknownLanguage(scan) ==
    /\ "ScannedLanguages" \in DOMAIN scan
    /\ \E j \in 1..Len(scan.ScannedLanguages) :
        scan.ScannedLanguages[j] \notin RegistryNames

\* C6: a record that references a language absent from the registry is never
\* skipped: neither its row nor any later row is ever written, the summary is
\* never written, no workbook is stored for the run, and when the run ends it
\* ended in the except clause - with the KeyError for that language when all
\* records before it were written and its fixed fields are well-formed.
C6_UnknownLanguageAborts ==
    \A k \in 1..Len(scan_data) :
        ReferencesUnknownLanguage(scan_data[k]) =>
            /\ i < k
            /\ \A r \in UsedRows(cells) : r < TABLE_TOP_ROWS + k - 1
            /\ summary = << >>
            /\ pc \notin { "write_summary_ws", "exit_script", "exited" }
            /\ target.kind # "xlsx"
            /\ closes = 0
            /\ pc = "returned" =>
                /\ raised # NoExc
                /\ (i = k - 1 /\ LiteralCells(scan_data[k], ScanRowLiteral).exc = NoExc) =>
                      /\ raised.type = "KeyError"
                      /\ raised.arg \notin RegistryNames
                      /\ \E j \in 1..Len(scan_data[k].ScannedLanguages) :
                            scan_data[k].ScannedLanguages[j] = raised.arg

\* C6 witness: the second record referenced Fortran; the run ended in the
\* except clause after the first record's row was written.
C6_Witness ==
    /\ pc = "returned"
    /\ Len(scan_data) = 2
    /\ scan_data[2].ScannedLanguages = << "Fortran" >>
    /\ raised = Exc("KeyError", "Fortran")
    /\ i = 1
    /\ UsedRows(cells) = { TABLE_TOP_ROWS }

\* C7: the range passed to add_table holds every column of the schema and
\* every cell the row loop writes for a fixed or tracked column.
C7_TableCoversSchemaAndCells ==
    table.added =>
        /\ Len(table.columns) <= table.last_col - table.first_col + 1
        /\ \A k \in 1..Len(writes) :
            writes[k].col >= 0 =>
                /\ writes[k].col >= table.first_col
                /\ writes[k].col <= table.last_col
                /\ writes[k].row > table.first_row
                /\ writes[k].row <= table.last_row

\* The languages of a scan's usage list.
UsedLanguages(scan) ==
    { scan.ScannedLanguages[j] : j \in 1..Len(scan.ScannedLanguages) }

\* C8: in the sheet row of every record written, each tracked language of the
\* registry has the presence flag 1 in its registry column when the record's
\* usage list names it, and no cell in that column otherwise.
C8_LanguageFlags ==
    \A k \in 1..i :
        \A n \in 1..Len(LanguageItems) :
            LanguageItems[n].col > -1 =>
                IF LanguageItems[n].lang \in UsedLanguages(scan_data[k])
                THEN /\ << TABLE_TOP_ROWS + k - 1, LanguageItems[n].col >> \in DOMAIN cells
                     /\ cells[<< TABLE_TOP_ROWS + k - 1, LanguageItems[n].col >>] = Num(1)
                ELSE << TABLE_TOP_ROWS + k - 1, LanguageItems[n].col >> \notin DOMAIN cells

\* C8 witness: a record using Java and VB6 was written, after another record.
C8_Witness ==
    /\ i = 2
    /\ scan_data[2].ScannedLanguages = << "Java", "VB6" >>
    /\ scan_data[1].ScannedLanguages = << "Common", "Java" >>
    /\ cells[<< TABLE_TOP_ROWS + 1, 51 >>] = Num(1)

\* The untracked languages: the registry names with the sentinel column.
UntrackedNames ==
    { LanguageItems[k].lang : k \in { n \in 1..Len(LanguageItems) : LanguageItems[n].col = -1 } }

\* C9: a reference to an untracked language raises nothing, and the row loop
\* issues no cell write for it: no write goes to the sentinel column -1.
C9_UntrackedNotWritten ==
    /\ raised.type = "KeyError" => raised.arg \notin UntrackedNames
    /\ \A k \in 1..Len(writes) : writes[k].col # -1

\* A scan object with all its fields, parsable timestamps (the completion
\* timestamp possibly null) and registry languages only.
ValidOrInFlight(scan) ==
    /\ \A e \in 1..Len(ScanRowLiteral) :
        ScanRowLiteral[e].conv # "none" =>
            /\ ScanRowLiteral[e].key \in DOMAIN scan
            /\ (ScanRowLiteral[e].conv = "datetime"
                    /\ ScanRowLiteral[e].key # "ScanCompletedOn")
                  => scan[ScanRowLiteral[e].key].j = "datestr"
    /\ scan.ScanCompletedOn.j \in { "datestr", "null" }
    /\ ~ReferencesUnknownLanguage(scan)

\* C10: when the run has ended, every record that was reached and is valid -
\* with or without a completion timestamp - has its row, and ScanDuration
\* evaluates there to 0 without a completion timestamp and to completed -
\* requested with one.
C10_DurationOfEveryRow ==
    Terminated =>
        \A k \in 1..Len(scan_data) :
            (i >= k - 1 /\ ValidOrInFlight(scan_data[k])) =>
                /\ i >= k
                /\ TABLE_TOP_ROWS + k - 1 \in UsedRows(cells)
                /\ ScanDuration(table, cells, TABLE_TOP_ROWS + k - 1) =
                     IF scan_data[k].ScanCompletedOn.j = "null" THEN 0
                     ELSE scan_data[k].ScanCompletedOn.n - scan_data[k].ScanRequestedOn.n

\* The tracked languages that at least one record of the input uses.
TrackedLanguagesUsed ==
    { LanguageItems[n].lang : n \in { x \in 1..Len(LanguageItems) :
        /\ LanguageItems[x].col > -1
        /\ \E k \in 1..Len(scan_data) :
            /\ "ScannedLanguages" \in DOMAIN scan_data[k]
            /\ LanguageItems[x].lang \in UsedLanguages(scan_data[k]) } }

\* The positions in the registry of its tracked languages.
TrackedPositions == { n \in 1..Len(LanguageItems) : LanguageItems[n].col > -1 }

\* C11 as stated: the schema given to add_table has 33 + K columns, K the
\* number of tracked languages used anywhere in the input, and its language
\* columns are exactly the tracked languages some record uses.
C11_ColumnsFollowData ==
    table.added =>
        /\ Len(table.columns) = 33 + Cardinality(TrackedLanguagesUsed)
        /\ { table.columns[c].header : c \in 34..Len(table.columns) } = TrackedLanguagesUsed

\* C11 amended: the schema given to add_table has 33 + K columns, K the number
\* of tracked (non-sentinel) languages of the registry, whatever the input:
\* the 33 fixed columns, then one column per tracked registry language, in
\* registry order, used by a record or not, and none for an untracked one.
C11_ColumnsFollowRegistry ==
    table.added =>
        /\ Len(table.columns) = 33 + Cardinality(TrackedPositions)
        /\ \A c \in 1..33 : table.columns[c].header = FixedColumns[c].header
        /\ \A n \in TrackedPositions :
            table.columns[33 + Cardinality({ x \in TrackedPositions : x <= n })].header
                = LanguageItems[n].lang
        /\ \A c \in 1..Len(table.columns) : table.columns[c].header \notin UntrackedNames

\* C11 witness: the table was added for an input whose records use one
\* tracked language, Java, only.
C11_Witness ==
    /\ table.added
    /\ Len(scan_data) = MaxScans
    /\ TrackedLanguagesUsed = { "Java" }
    /\ Len(table.columns) = 52

\* Every operand of the formula f that addresses the sheet is a structured
\* reference AllScans[Column] to a column of the table; none is a literal
\* cell or range.
RECURSIVE AddressesTableOnly(_)
AddressesTableOnly(f) ==
    CASE f.op = "ref" ->
            /\ f.table = SCANS_TABLE_NAME
            /\ table.added
            /\ table.name = f.table
            /\ TableColumn(table, f.column) >= 0
      [] f.op \in { "lit", "criterion" } -> TRUE
      [] f.op \in { "range", "cell" } -> FALSE
      [] OTHER -> \A k \in 1..Len(f.args) : AddressesTableOnly(f.args[k])

\* The formula f addresses the data at all.
RECURSIVE HasReference(_)
HasReference(f) ==
    CASE f.op = "ref" -> TRUE
      [] f.op \in { "lit", "criterion", "range", "cell" } -> FALSE
      [] OTHER -> \E k \in 1..Len(f.args) : HasReference(f.args[k])

\* The positions in the Summary sheet's writes that hold a formula.
SummaryFormulas(sm) == { k \in 1..Len(sm) : sm[k].value.t = "formula" }

\* C12: every formula write_summary_ws writes - the 20 labelled statistics and
\* the incremental-percentage cell - addresses the data, and only through
\* AllScans[Column] with a column of the table, never through a literal cell
\* or row range; this holds for every number of records.
C12_FormulasUseTableReferences ==
    SummaryWritten =>
        /\ Cardinality(SummaryFormulas(summary)) = 21
        /\ \A k \in SummaryFormulas(summary) :
            /\ AddressesTableOnly(summary[k].value.f)
            /\ HasReference(summary[k].value.f)
        /\ \E k \in SummaryFormulas(summary) : summary[k].format = "percent"

\* C12 witness: the summary was written after rows were written.
C12_Witness ==
    /\ SummaryWritten
    /\ i = MaxScans
    /\ Cardinality(SummaryFormulas(summary)) = 21

\* The rate the claim gives a record for the scans with IsIncremental = incr:
\* lines / (Duration x 24) when the record is such a scan and its Duration,
\* completed - requested, is positive, 0 otherwise.
ExpectedRate(scan, incr) ==
    IF /\ scan.IsIncremental.n = incr
       /\ scan.ScanCompletedOn.n - scan.ScanRequestedOn.n > 0
    THEN Ratio(scan.LOC.n * Days(scan.ScanCompletedOn.n - scan.ScanRequestedOn.n).den,
               Days(scan.ScanCompletedOn.n - scan.ScanRequestedOn.n).num * 24)
    ELSE Ratio(0, 1)

\* Record A of the scenario: incremental, 1000 lines, 0.1 day.
IsRecordA(scan) == \E l \in LangLists : scan = ScanJson(1, TRUE, 1000, JTime(101), l)

\* Record B of the scenario: full, 500 lines, 0.5 day.
IsRecordB(scan) == \E l \in LangLists : scan = ScanJson(2, FALSE, 500, JTime(105), l)

\* The formula of the cell write_summary_ws formats as a percentage.
PercentFormula(sm) ==
    sm[CHOOSE k \in 1..Len(sm) : sm[k].format = "percent"].value.f

\* C13: on every written row FullSpeed is lines/(Duration x 24) for a full scan
\* with Duration > 0 and 0 otherwise, IncrSpeed the same for an incremental
\* scan, so at most one of the two is non-zero; and for the record set A
\* (incremental, 1000 lines, 0.1 day), B (full, 500 lines, 0.5 day) the summary
\* gives Full Scans = 1, Incr Scans = 1, the percentage 1/2, IncrSpeed(A) =
\* 1000/2.4 and FullSpeed(B) = 500/12.
C13_RatesAndSplit ==
    /\ \A k \in 1..i :
        table.added =>
            /\ TableColumn(table, "FullSpeed") >= 0
            /\ TableColumn(table, "IncrSpeed") >= 0
            /\ ScanSheetRow(k - 1) \in TableDataRows(table)
            /\ SameRatio(FullSpeed(table, cells, ScanSheetRow(k - 1)),
                         ExpectedRate(scan_data[k], 0))
            /\ SameRatio(IncrSpeed(table, cells, ScanSheetRow(k - 1)),
                         ExpectedRate(scan_data[k], 1))
            /\ \/ FullSpeed(table, cells, ScanSheetRow(k - 1)).num = 0
               \/ IncrSpeed(table, cells, ScanSheetRow(k - 1)).num = 0
    /\ (SummaryWritten /\ Len(scan_data) = 2
            /\ IsRecordA(scan_data[1]) /\ IsRecordB(scan_data[2])) =>
        /\ EvalCountIf(SummaryStat(summary, "Full Scans"), table, cells) = 1
        /\ EvalCountIf(SummaryStat(summary, "Incr Scans"), table, cells) = 1
        /\ SameRatio(EvalShare(PercentFormula(summary), table, cells), Ratio(1, 2))
        /\ SameRatio(IncrSpeed(table, cells, ScanSheetRow(0)), Ratio(10000, 24))
        /\ SameRatio(FullSpeed(table, cells, ScanSheetRow(0)), Ratio(0, 1))
        /\ SameRatio(FullSpeed(table, cells, ScanSheetRow(1)), Ratio(500, 12))
        /\ SameRatio(IncrSpeed(table, cells, ScanSheetRow(1)), Ratio(0, 1))

\* The scenario's record set has been written and summarised.
C13_Witness ==
    /\ SummaryWritten
    /\ Len(scan_data) = 2
    /\ IsRecordA(scan_data[1])
    /\ IsRecordB(scan_data[2])
    /\ i = 2
    /\ FullSpeed(table, cells, ScanSheetRow(1)).num > 0

\* A full scan with Duration 0 has been written: both rates are 0 there.
C13_ZeroDurationWritten ==
    \E k \in 1..i :
        /\ scan_data[k] = ScanJson(6, FALSE, 500, JTime(100), << >>)
        /\ FullSpeed(table, cells, ScanSheetRow(k - 1)).num = 0

\* The column list init_scans_ws_options builds from the registry.
SchemaColumns == init_scans_ws_options(LanguageItems).columns

\* The headers of the columns bound to a formula.
FormulaHeaders ==
    { SchemaColumns[c].header : c \in { d \in 1..Len(SchemaColumns) :
                                             SchemaColumns[d].formula # "" } }

\* The rows convert_json_scan makes of the records of the input it accepts.
NormalizedRows ==
    { convert_json_scan(scan_data[k], init_lang_columns).row :
        k \in { j \in 1..Len(scan_data) :
                  convert_json_scan(scan_data[j], init_lang_columns).exc = NoExc } }

\* C14: every cell convert_json_scan makes for a fixed field or a tracked
\* language (column index above the sentinel) has the index at which
\* init_scans_ws_options lists the column of the same header; headers are
\* distinct, so no two of them share an index, and no two cells of a row do;
\* the formula-bound columns are the nine named ones, and no ws.write call and
\* no stored cell of a data row falls on one of them.
C14_IndicesMatchSchema ==
    /\ \A a, b \in 1..Len(SchemaColumns) :
        SchemaColumns[a].header = SchemaColumns[b].header => a = b
    /\ FormulaHeaders = { "ScanDuration", "SourceTime", "QueuedTime", "EngineTime",
                          "ScanHours", "Weekday", "FullSpeed", "IncrSpeed", "Results" }
    /\ \A row \in NormalizedRows : \A a \in 1..Len(row) :
        row[a].col >= 0 =>
            /\ row[a].col + 1 <= Len(SchemaColumns)
            /\ SchemaColumns[row[a].col + 1].header = row[a].name
            /\ SchemaColumns[row[a].col + 1].formula = ""
            /\ \A b \in 1..Len(row) : row[b].col = row[a].col => b = a
    /\ \A w \in 1..Len(writes) :
        writes[w].col >= 0 =>
            /\ writes[w].col + 1 <= Len(SchemaColumns)
            /\ SchemaColumns[writes[w].col + 1].header \notin FormulaHeaders
    /\ \A rc \in DOMAIN cells :
        SchemaColumns[rc[2] + 1].header \notin FormulaHeaders

\* Two rows are written, one of them with the flag of a tracked language, and
\* the run has ended.
C14_Witness ==
    /\ pc = "exited"
    /\ i = 2
    /\ \E w \in 1..Len(writes) : writes[w].col = init_lang_columns["Java"].col
    /\ \E w \in 1..Len(writes) : writes[w].col = init_lang_columns["VB6"].col

\* C15: whenever a step issues ws.write calls on the Scans sheet or changes its
\* cells, it is the turn of the row loop for record i (from 0): the records
\* before it have their rows, the sheet rows 2 .. i + 1, and no other row is
\* used, the calls made so far are kept and all new calls and
\* all new cells are in sheet row i + 2, the row starts with the Id of record
\* i, no stored cell is changed or removed, and the loop moves on to i + 1.
C15_RowsInInputOrder ==
    [][(writes' # writes \/ cells' # cells) =>
        /\ pc = "rows"
        /\ i < Len(scan_data)
        /\ i' = i + 1
        /\ UsedRows(cells) = 2..(i + 1)
        /\ Len(writes') > Len(writes)
        /\ SubSeq(writes', 1, Len(writes)) = writes
        /\ \A w \in (Len(writes) + 1)..Len(writes') : writes'[w].row = i + 2
        /\ \A rc \in DOMAIN cells : rc \in DOMAIN cells' /\ cells'[rc] = cells[rc]
        /\ \A rc \in DOMAIN cells' \ DOMAIN cells : rc[1] = i + 2
        /\ << i + 2, 0 >> \in DOMAIN cells' \ DOMAIN cells
        /\ cells'[<< i + 2, 0 >>] = Num(scan_data[i + 1].Id.n)
      ]_vars

\* Two records are written, the first in sheet row 2 and the second in row 3.
C15_Witness ==
    /\ i = 2
    /\ UsedRows(cells) = { 2, 3 }
    /\ cells[<< 2, 0 >>] = Num(scan_data[1].Id.n)
    /\ cells[<< 3, 0 >>] = Num(scan_data[2].Id.n)
    /\ scan_data[1].Id # scan_data[2].Id
    /\ \E w \in 1..Len(writes) : writes[w].row = 2
    /\ \E w \in 1..Len(writes) : writes[w].row = 3

====
